---- MODULE Spec2Model ----
(***************************************************************************)
(* Construction-time type derivation and validation of the computation      *)
(* building blocks (computation_building_blocks.py).                        *)
(*                                                                          *)
(* Python values are tagged tuples, so that any two of them are comparable: *)
(*   None                      <<>>                                         *)
(*   a text string s           <<"str", s>>, <<"unicode", s>>               *)
(*   an integer n              <<"int", n>>                                 *)
(*   a Python tuple            <<"tuple", <<item, ...>>>>                   *)
(*   a Python list             <<"list", <<item, ...>>>>                    *)
(*   a building block          <<"node", i>>   (i indexes the heap `nodes`) *)
(*   a tf dtype                <<"dtype", d>>                               *)
(*   a pb.Computation          <<"proto", type, bytes>>                     *)
(*   a TensorType              <<"tensor", dtype, shape>>                   *)
(*   a FunctionType            <<"fn", parameter, result>>                  *)
(*   a NamedTupleType          <<"tup", <<<<name, type>>, ...>>>>           *)
(***************************************************************************)
EXTENDS Integers, Sequences, FiniteSets, TLC

\* nodes: the building blocks constructed so far, in order of construction
\* built: for each of them, the constructor call that built it
\* last:  the most recent call and its outcome
VARIABLES nodes, built, last

vars == <<nodes, built, last>>

\* ------------------------------------------------------------------ bounds

MaxNodes == 3

\* ------------------------------------------------------------ Python values

None == <<>>

Text(s) == <<"str", s>>

Num(n) == <<"int", n>>

PyTuple(items) == <<"tuple", items>>

PyList(items) == <<"list", items>>

NodeRef(i) == <<"node", i>>

Tag(v) == IF v = None THEN "None" ELSE v[1]

\* isinstance(v, string_types): str and unicode
IsText(v) == Tag(v) \in {"str", "unicode"}

\* str(v) of a text value: the same characters as a str.
str_of(v) == <<"str", v[2]>>

\* Python's ==: text values compare by their characters.
PyEq(a, b) == IF IsText(a) /\ IsText(b) THEN a[2] = b[2] ELSE a = b

\* isinstance(v, int)
IsInt(v) == Tag(v) = "int"

\* isinstance(v, tuple)
IsPyTuple(v) == Tag(v) = "tuple"

\* isinstance(v, ComputationBuildingBlock)
IsNode(v) == Tag(v) = "node"

\* isinstance(v, types.Type)
IsType(v) == Tag(v) \in {"tensor", "fn", "tup"}

\* Python truthiness of a value: None, '' and 0 are falsy.
Truthy(v) ==
  CASE v = None -> FALSE
    [] IsText(v) -> v[2] # ""
    [] IsInt(v) -> v[2] # 0
    [] Tag(v) \in {"tuple", "list"} -> Len(v[2]) > 0
    [] OTHER -> TRUE

Digit(d) == <<"0", "1", "2", "3", "4", "5", "6", "7", "8", "9">>[d + 1]

RECURSIVE DecStr(_)
DecStr(n) == IF n < 10 THEN Digit(n) ELSE DecStr(n \div 10) \o Digit(n % 10)

\* str(v) of a text or integer value.
PyStr(v) ==
  CASE IsText(v) -> v[2]
    [] IsInt(v) -> IF v[2] < 0 THEN "-" \o DecStr(-v[2]) ELSE DecStr(v[2])
    [] OTHER -> "None"

\* ------------------------------------------------------------------- types

TensorType(dtype, shape) == <<"tensor", dtype, shape>>

\* types.to_type(): None and instances of types.Type pass through, a bare
\* dtype becomes the scalar tensor type of that dtype.
to_type(spec) ==
  CASE spec = None -> None
    [] Tag(spec) = "dtype" -> TensorType(spec[2], "[]")
    [] OTHER -> spec

FunctionType(parameter, result) == <<"fn", to_type(parameter), to_type(result)>>

\* types.NamedTupleType(elements): each element is a (name, type) tuple or a
\* bare type; the result keeps the order and the names.
NamedTupleType(elements) ==
  <<"tup", [k \in 1..Len(elements) |->
              IF IsPyTuple(elements[k])
                THEN <<elements[k][2][1], to_type(elements[k][2][2])>>
                ELSE <<None, to_type(elements[k])>>]>>

IsFunctionType(t) == Tag(t) = "fn"

IsNamedTupleType(t) == Tag(t) = "tup"

\* Type.is_assignable_from(other): structural and one-directional. A tensor
\* type of unknown dimension accepts one of a known dimension.
RECURSIVE is_assignable_from(_, _)
is_assignable_from(target, other) ==
  CASE other = None \/ target = None -> FALSE
    [] Tag(target) # Tag(other) -> FALSE
    [] Tag(target) = "tensor" ->
         /\ target[2] = other[2]
         /\ (target[3] = other[3] \/ (target[3] = "[?]" /\ other[3] = "[2]"))
    [] Tag(target) = "fn" -> target = other
    [] Tag(target) = "tup" ->
         /\ Len(target[2]) = Len(other[2])
         /\ \A k \in 1..Len(target[2]) :
              /\ target[2][k][1] = other[2][k][1]
              /\ is_assignable_from(target[2][k][2], other[2][k][2])
    [] OTHER -> FALSE

\* type_utils.get_named_tuple_element_type(type_spec, name): the type of the
\* first field called name, None when there is no such field (the caller
\* turns that into the lookup's ValueError).
HasField(type_spec, name) ==
  \E k \in 1..Len(type_spec[2]) : type_spec[2][k][1] = name

get_named_tuple_element_type(type_spec, name) ==
  LET k == CHOOSE j \in 1..Len(type_spec[2]) :
             /\ type_spec[2][j][1] = name
             /\ \A i \in 1..(j - 1) : type_spec[2][i][1] # name
  IN type_spec[2][k][2]

\* ------------------------------------------------------------------- nodes

\* The attributes of a building block; a constructor fills in its own.
Blank ==
  [kind |-> "", type_signature |-> None, name |-> None, index |-> None,
   context |-> None, source |-> None, elements |-> None, function |-> None,
   argument |-> None, parameter_name |-> None, parameter_type |-> None,
   result |-> None, locals |-> None, uri |-> None, proto |-> None]

\* The outcome of a constructor: the exception raised ("none" when it
\* returns) and the node built.
Raise(e) == [exc |-> e, node |-> Blank]

Return(n) == [exc |-> "none", node |-> n]

\* ComputationBuildingBlock.__init__
ComputationBuildingBlock_init(self, type_spec) ==
  [self EXCEPT !.type_signature = to_type(type_spec)]

\* The type_signature property of the node a value refers to.
type_signature(v) == nodes[v[2]].type_signature

\* Reference.__init__(name, type_spec, context)
Reference_init(name, type_spec, context) ==
  IF ~IsText(name) THEN Raise("TypeError")
  ELSE Return([ComputationBuildingBlock_init(Blank, type_spec) EXCEPT
                 !.kind = "Reference", !.name = name, !.context = context])

\* Reference.__str__
Reference_str(self) ==
  IF Truthy(self.context)
    THEN PyStr(self.name) \o "@" \o PyStr(self.context)
    ELSE PyStr(self.name)

\* Selection.__init__ as it would be if it always took the first element's
\* type for a selection by index.
Selection_init_first_element(source, name, index) ==
  IF name = None /\ index = None THEN Raise("ValueError")
  ELSE IF name # None /\ index # None THEN Raise("ValueError")
  ELSE IF ~IsNode(source) THEN Raise("TypeError")
  ELSE LET source_type == type_signature(source) IN
    IF ~IsNamedTupleType(source_type) THEN Raise("TypeError")
    ELSE IF name # None THEN
      IF ~IsText(name) THEN Raise("TypeError")
      ELSE IF ~Truthy(name) THEN Raise("ValueError")
      ELSE IF ~HasField(source_type, str_of(name)) THEN Raise("ValueError")
      ELSE Return([ComputationBuildingBlock_init(Blank,
                     get_named_tuple_element_type(source_type, str_of(name)))
                   EXCEPT !.kind = "Selection", !.source = source,
                          !.name = str_of(name), !.index = None])
    ELSE
      IF ~IsInt(index) THEN Raise("TypeError")
      ELSE LET elements == source_type[2] IN
        IF index[2] >= 0 /\ index[2] < Len(elements)
          THEN Return([ComputationBuildingBlock_init(Blank, elements[1][2])
                       EXCEPT !.kind = "Selection", !.source = source,
                              !.name = None, !.index = index])
          ELSE Raise("ValueError")

\* Selection.__init__ as it would be if a name given together with an index
\* were accepted and the index dropped.
Selection_init_name_wins(source, name, index) ==
  IF name = None /\ index = None THEN Raise("ValueError")
  ELSE IF ~IsNode(source) THEN Raise("TypeError")
  ELSE LET source_type == type_signature(source) IN
    IF ~IsNamedTupleType(source_type) THEN Raise("TypeError")
    ELSE IF name # None THEN
      IF ~IsText(name) THEN Raise("TypeError")
      ELSE IF ~Truthy(name) THEN Raise("ValueError")
      ELSE IF ~HasField(source_type, str_of(name)) THEN Raise("ValueError")
      ELSE Return([ComputationBuildingBlock_init(Blank,
                     get_named_tuple_element_type(source_type, str_of(name)))
                   EXCEPT !.kind = "Selection", !.source = source,
                          !.name = str_of(name), !.index = None])
    ELSE
      IF ~IsInt(index) THEN Raise("TypeError")
      ELSE LET elements == source_type[2] IN
        IF index[2] >= 0 /\ index[2] < Len(elements)
          THEN Return([ComputationBuildingBlock_init(Blank,
                         elements[index[2] + 1][2])
                       EXCEPT !.kind = "Selection", !.source = source,
                              !.name = None, !.index = index])
          ELSE Raise("ValueError")

\* Selection.__init__(source, name, index)
Selection_init(source, name, index) ==
  IF name = None /\ index = None THEN Raise("ValueError")
  ELSE IF name # None /\ index # None THEN Raise("ValueError")
  ELSE IF ~IsNode(source) THEN Raise("TypeError")
  ELSE LET source_type == type_signature(source) IN
    IF ~IsNamedTupleType(source_type) THEN Raise("TypeError")
    ELSE IF name # None THEN
      IF ~IsText(name) THEN Raise("TypeError")
      ELSE IF ~Truthy(name) THEN Raise("ValueError")
      ELSE IF ~HasField(source_type, str_of(name)) THEN Raise("ValueError")
      ELSE Return([ComputationBuildingBlock_init(Blank,
                     get_named_tuple_element_type(source_type, str_of(name)))
                   EXCEPT !.kind = "Selection", !.source = source,
                          !.name = str_of(name), !.index = None])
    ELSE
      IF ~IsInt(index) THEN Raise("TypeError")
      ELSE LET elements == source_type[2] IN
        IF index[2] >= 0 /\ index[2] < Len(elements)
          THEN Return([ComputationBuildingBlock_init(Blank,
                         elements[index[2] + 1][2])
                       EXCEPT !.kind = "Selection", !.source = source,
                              !.name = None, !.index = index])
          ELSE Raise("ValueError")

\* Tuple.__init__._map_element: the (name, value) pair of an element, or
\* None where the code raises TypeError.
map_element(e) ==
  IF IsNode(e) THEN <<None, e>>
  ELSE IF /\ IsPyTuple(e)
          /\ Len(e[2]) = 2
          /\ (e[2][1] = None \/ IsText(e[2][1]))
    THEN IF IsNode(e[2][2]) THEN <<e[2][1], e[2][2]>> ELSE None
    ELSE None

\* anonymous_tuple.AnonymousTuple.__init__: two entries may not share a
\* name.
HasDuplicateNames(elements) ==
  \E i, j \in 1..Len(elements) :
    /\ i < j
    /\ elements[i][1] # None
    /\ PyEq(elements[i][1], elements[j][1])

\* Tuple.__init__(elements)
Tuple_init(elems) ==
  LET elements == [k \in 1..Len(elems[2]) |-> map_element(elems[2][k])] IN
  IF \E k \in 1..Len(elements) : elements[k] = None THEN Raise("TypeError")
  ELSE LET self == ComputationBuildingBlock_init(Blank, NamedTupleType(
             [k \in 1..Len(elements) |->
                IF Truthy(elements[k][1])
                  THEN PyTuple(<<elements[k][1], type_signature(elements[k][2])>>)
                  ELSE type_signature(elements[k][2])])) IN
    IF HasDuplicateNames(elements) THEN Raise("ValueError")
    ELSE Return([self EXCEPT !.kind = "Tuple", !.elements = PyList(elements)])

\* Call.__init__ as it would be if the assignability check ran the wrong
\* way round.
Call_init_reversed_check(func, arg) ==
  IF ~IsNode(func) THEN Raise("TypeError")
  ELSE LET func_type == type_signature(func) IN
    IF ~IsFunctionType(func_type) THEN Raise("TypeError")
    ELSE IF func_type[2] # None /\ arg = None THEN Raise("TypeError")
    ELSE IF func_type[2] # None /\ ~IsNode(arg) THEN Raise("AttributeError")
    ELSE IF /\ func_type[2] # None
            /\ ~is_assignable_from(type_signature(arg), func_type[2])
      THEN Raise("TypeError")
    ELSE IF func_type[2] = None /\ arg # None THEN Raise("TypeError")
    ELSE Return([ComputationBuildingBlock_init(Blank, func_type[3]) EXCEPT
                   !.kind = "Call", !.function = func, !.argument = arg])

\* Call.__init__(func, arg)
Call_init(func, arg) ==
  IF ~IsNode(func) THEN Raise("TypeError")
  ELSE LET func_type == type_signature(func) IN
    IF ~IsFunctionType(func_type) THEN Raise("TypeError")
    ELSE IF func_type[2] # None /\ arg = None THEN Raise("TypeError")
    ELSE IF func_type[2] # None /\ ~IsNode(arg) THEN Raise("AttributeError")
    ELSE IF /\ func_type[2] # None
            /\ ~is_assignable_from(func_type[2], type_signature(arg))
      THEN Raise("TypeError")
    ELSE IF func_type[2] = None /\ arg # None THEN Raise("TypeError")
    ELSE Return([ComputationBuildingBlock_init(Blank, func_type[3]) EXCEPT
                   !.kind = "Call", !.function = func, !.argument = arg])

\* Lambda.__init__ as it would be with the parameter type and the result
\* type exchanged.
Lambda_init_swapped(parameter_name, parameter_type, result) ==
  IF ~IsText(parameter_name) THEN Raise("TypeError")
  ELSE IF parameter_type = None THEN Raise("TypeError")
  ELSE IF ~IsNode(result) THEN Raise("TypeError")
  ELSE Return([ComputationBuildingBlock_init(Blank,
                 FunctionType(type_signature(result), to_type(parameter_type)))
               EXCEPT !.kind = "Lambda", !.parameter_name = parameter_name,
                      !.parameter_type = to_type(parameter_type),
                      !.result = result])

\* Lambda.__init__(parameter_name, parameter_type, result)
Lambda_init(parameter_name, parameter_type, result) ==
  IF ~IsText(parameter_name) THEN Raise("TypeError")
  ELSE IF parameter_type = None THEN Raise("TypeError")
  ELSE IF ~IsNode(result) THEN Raise("TypeError")
  ELSE Return([ComputationBuildingBlock_init(Blank,
                 FunctionType(to_type(parameter_type), type_signature(result)))
               EXCEPT !.kind = "Lambda", !.parameter_name = parameter_name,
                      !.parameter_type = to_type(parameter_type),
                      !.result = result])

\* Block.__init__: a local is well formed when it is a 2-tuple whose first
\* item is text and whose second is a building block.
BadLocal(element) ==
  \/ ~IsPyTuple(element)
  \/ Len(element[2]) # 2
  \/ ~IsText(element[2][1])
  \/ ~IsNode(element[2][2])

\* Block.__init__(local_symbols, result)
Block_init(local_symbols, result) ==
  IF \E k \in 1..Len(local_symbols[2]) : BadLocal(local_symbols[2][k])
    THEN Raise("TypeError")
  ELSE IF ~IsNode(result) THEN Raise("TypeError")
  ELSE Return([ComputationBuildingBlock_init(Blank, type_signature(result))
               EXCEPT !.kind = "Block", !.result = result,
                      !.locals = PyList([k \in 1..Len(local_symbols[2]) |->
                                   <<local_symbols[2][k][2][1],
                                     local_symbols[2][k][2][2]>>])])

\* Intrinsic.__init__ as it would be without the check of type_spec.
Intrinsic_init_unchecked(uri, type_spec) ==
  IF ~IsText(uri) THEN Raise("TypeError")
  ELSE Return([ComputationBuildingBlock_init(Blank, to_type(type_spec))
               EXCEPT !.kind = "Intrinsic", !.uri = uri])

\* Intrinsic.__init__(uri, type_spec)
Intrinsic_init(uri, type_spec) ==
  IF ~IsText(uri) THEN Raise("TypeError")
  ELSE IF type_spec = None THEN Raise("TypeError")
  ELSE Return([ComputationBuildingBlock_init(Blank, to_type(type_spec))
               EXCEPT !.kind = "Intrinsic", !.uri = uri])

\* Data.__init__(uri, type_spec)
Data_init(uri, type_spec) ==
  IF ~IsText(uri) THEN Raise("TypeError")
  ELSE IF type_spec = None THEN Raise("TypeError")
  ELSE Return([ComputationBuildingBlock_init(Blank, to_type(type_spec))
               EXCEPT !.kind = "Data", !.uri = uri])

\* repr(proto): the text form of the payload, as character codes: those of
\* its (tensor) type, then those of its body.
proto_repr(proto) ==
  <<Len(proto[2][2][2]), Len(proto[2][2][3])>> \o proto[3]

\* type_serialization.deserialize_type(proto.type)
deserialize_type(pbtype) == pbtype[2]

Adler32Base == 65521

\* zlib.adler32(data) & 0xFFFFFFFF, as its two 16-bit halves: the value is
\* hi * 2^16 + lo, which is below 2^32, so the mask changes nothing.
RECURSIVE adler32_sums(_, _, _)
adler32_sums(data, a, b) ==
  IF data = <<>> THEN [hi |-> b, lo |-> a]
  ELSE LET a2 == (a + Head(data)) % Adler32Base IN
       adler32_sums(Tail(data), a2, (b + a2) % Adler32Base)

adler32(data) == adler32_sums(data, 1, 0)

HexDigit(d) ==
  <<"0", "1", "2", "3", "4", "5", "6", "7", "8", "9",
    "a", "b", "c", "d", "e", "f">>[d + 1]

RECURSIVE Hex(_)
Hex(n) == IF n < 16 THEN HexDigit(n) ELSE Hex(n \div 16) \o HexDigit(n % 16)

\* The four hexadecimal digits of a 16-bit half.
Hex4(n) ==
  HexDigit(n \div 4096) \o HexDigit((n \div 256) % 16)
    \o HexDigit((n \div 16) % 16) \o HexDigit(n % 16)

\* '{:x}'.format(v): lowercase, no leading zeros.
format_x(v) == IF v.hi = 0 THEN Hex(v.lo) ELSE Hex(v.hi) \o Hex4(v.lo)

\* CompiledComputation.__init__ as it would be if it tested the name for
\* truth instead of for None.
CompiledComputation_init_falsy_name(proto, name) ==
  IF Tag(proto) # "proto" THEN Raise("TypeError")
  ELSE IF name # None /\ ~IsText(name) THEN Raise("TypeError")
  ELSE Return([ComputationBuildingBlock_init(Blank, deserialize_type(proto[2]))
               EXCEPT !.kind = "CompiledComputation", !.proto = proto,
                      !.name = IF Truthy(name) THEN name
                               ELSE Text(format_x(adler32(proto_repr(proto))))])

\* CompiledComputation.__init__(proto, name)
CompiledComputation_init(proto, name) ==
  IF Tag(proto) # "proto" THEN Raise("TypeError")
  ELSE IF name # None /\ ~IsText(name) THEN Raise("TypeError")
  ELSE Return([ComputationBuildingBlock_init(Blank, deserialize_type(proto[2]))
               EXCEPT !.kind = "CompiledComputation", !.proto = proto,
                      !.name = IF name # None THEN name
                               ELSE Text(format_x(adler32(proto_repr(proto))))])

\* ----------------------------------------------------------------- inputs

Int32 == TensorType("int32", "[]")

VecAny == TensorType("int32", "[?]")

Vec2 == TensorType("int32", "[2]")

PairType == NamedTupleType(<<PyTuple(<<Text("a"), Int32>>), Vec2>>)

\* The building blocks built so far, and values that are not building blocks.
NodeRefs == {NodeRef(i) : i \in 1..Len(nodes)}

NonNode == Text("x")

\* The lists of at most two items drawn from S.
ListsOf(S) ==
  {PyList(<<>>)} \cup {PyList(<<e>>) : e \in S}
    \cup {PyList(<<e, f>>) : e \in S, f \in S}

\* ---------------------------------------------------------------- actions

\* The effect of one constructor call: the node joins the heap when the
\* constructor returns, and nothing changes when it raises.
MayReturn(o) == o.exc = "none" => Len(nodes) < MaxNodes

Heap(o) == IF o.exc = "none" THEN Append(nodes, o.node) ELSE nodes

Calls(op, args, o) ==
  IF o.exc = "none" THEN Append(built, [op |-> op, args |-> args]) ELSE built

Outcome(op, args, o) ==
  [op |-> op, args |-> args, exc |-> o.exc,
   out |-> IF o.exc = "none" THEN NodeRef(Len(nodes) + 1) ELSE None]

Reference(inputs) ==
  \E in \in inputs :
    LET o == Reference_init(in[1], in[2], in[3]) IN
    /\ MayReturn(o)
    /\ nodes' = Heap(o)
    /\ built' = Calls("Reference", in, o)
    /\ last' = Outcome("Reference", in, o)

\* str() of a Reference built earlier.
StrReference ==
  \E i \in 1..Len(nodes) :
    /\ nodes[i].kind = "Reference"
    /\ UNCHANGED <<nodes, built>>
    /\ last' = [op |-> "str", args |-> <<NodeRef(i)>>, exc |-> "none",
                out |-> Text(Reference_str(nodes[i]))]

Selection(inputs) ==
  \E in \in inputs :
    LET o == Selection_init(in[1], in[2], in[3]) IN
    /\ MayReturn(o)
    /\ nodes' = Heap(o)
    /\ built' = Calls("Selection", in, o)
    /\ last' = Outcome("Selection", in, o)

Tuple(inputs) ==
  \E in \in inputs :
    LET o == Tuple_init(in[1]) IN
    /\ MayReturn(o)
    /\ nodes' = Heap(o)
    /\ built' = Calls("Tuple", in, o)
    /\ last' = Outcome("Tuple", in, o)

Call(inputs) ==
  \E in \in inputs :
    LET o == Call_init(in[1], in[2]) IN
    /\ MayReturn(o)
    /\ nodes' = Heap(o)
    /\ built' = Calls("Call", in, o)
    /\ last' = Outcome("Call", in, o)

Lambda(inputs) ==
  \E in \in inputs :
    LET o == Lambda_init(in[1], in[2], in[3]) IN
    /\ MayReturn(o)
    /\ nodes' = Heap(o)
    /\ built' = Calls("Lambda", in, o)
    /\ last' = Outcome("Lambda", in, o)

Block(inputs) ==
  \E in \in inputs :
    LET o == Block_init(in[1], in[2]) IN
    /\ MayReturn(o)
    /\ nodes' = Heap(o)
    /\ built' = Calls("Block", in, o)
    /\ last' = Outcome("Block", in, o)

Intrinsic(inputs) ==
  \E in \in inputs :
    LET o == Intrinsic_init(in[1], in[2]) IN
    /\ MayReturn(o)
    /\ nodes' = Heap(o)
    /\ built' = Calls("Intrinsic", in, o)
    /\ last' = Outcome("Intrinsic", in, o)

Data(inputs) ==
  \E in \in inputs :
    LET o == Data_init(in[1], in[2]) IN
    /\ MayReturn(o)
    /\ nodes' = Heap(o)
    /\ built' = Calls("Data", in, o)
    /\ last' = Outcome("Data", in, o)

CompiledComputation(inputs) ==
  \E in \in inputs :
    LET o == CompiledComputation_init(in[1], in[2]) IN
    /\ MayReturn(o)
    /\ nodes' = Heap(o)
    /\ built' = Calls("CompiledComputation", in, o)
    /\ last' = Outcome("CompiledComputation", in, o)

Init ==
  /\ nodes = <<>>
  /\ built = <<>>
  /\ last = [op |-> "", args |-> <<>>, exc |-> "none", out |-> None]

\* The building block built first, when there is one.
FirstNode == {n \in NodeRefs : n[2] = 1}

\* The building block built last, when there is one.
LastNode == {n \in NodeRefs : n[2] = Len(nodes)}

\* ---- References and their rendering.

Contexts == {None, Text(""), Text("c"), Num(0), Num(7)}

RefReferenceInputs ==
  ({Text("r"), Text("")} \X {Int32} \X Contexts)
    \cup {<<Num(1), Int32, None>>}

NextRef ==
  \/ Reference(RefReferenceInputs)
  \/ StrReference

SpecRef == Init /\ [][NextRef]_vars

\* ---- References of any type, and blocks over them.

BlockReferenceInputs == {Text("r")} \X {None, Int32} \X {None}

BlockLocals ==
  {PyTuple(<<Text("v"), n>>) : n \in NodeRefs}
    \cup {PyTuple(<<Text("v"), NonNode>>), NonNode}

BlockBlockInputs ==
  (({PyList(<<>>)} \cup {PyList(<<e>>) : e \in BlockLocals}) \X NodeRefs)
    \cup {<<PyList(<<>>), NonNode>>}

NextBlock ==
  \/ Reference(BlockReferenceInputs)
  \/ Block(BlockBlockInputs)

SpecBlock == Init /\ [][NextBlock]_vars

\* ---- Intrinsics and data.

UriInputs == {Text(""), Text("u"), Num(1)} \X {None, Int32, <<"dtype", "int32">>}

NextUri ==
  \/ Intrinsic(UriInputs)
  \/ Data(UriInputs)

SpecUri == Init /\ [][NextUri]_vars

\* ---- Compiled computations.

Proto(t, body) == <<"proto", <<"pbtype", t>>, body>>

CompInputs ==
  ({Proto(Int32, <<170>>), Proto(Int32, <<1, 2>>), Proto(Int32, <<2, 1>>),
    Proto(Vec2, <<170>>)}
     \X {None, Text(""), Text("n"), Num(1)})
    \cup {<<NonNode, None>>}

NextComp ==
  \/ CompiledComputation(CompInputs)

SpecComp == Init /\ [][NextComp]_vars

\* ---- Selections from tuple-typed sources.

SelReferenceInputs == {Text("r")} \X {PairType} \X {None}

SelTupleInputs ==
  {<<PyList(<<n>>)>> : n \in LastNode}
    \cup {<<PyList(<<PyTuple(<<Text("a"), n>>), m>>)>> :
            n \in NodeRefs, m \in LastNode}

SelNames == {Text("a"), <<"unicode", "a">>, Text("z"), Text("")}

SelIndexes == {Num(-1), Num(0), Num(1), Num(2)}

SelSelectionInputs ==
  (NodeRefs \X SelNames \X {None})
    \cup (NodeRefs \X {None} \X SelIndexes)
    \cup (FirstNode \X {Num(1)} \X {None})
    \cup (FirstNode \X {None} \X {Text("i")})
    \cup ((NodeRefs \cup {NonNode}) \X {None} \X {None})
    \cup ((FirstNode \cup {NonNode}) \X {Text("a")} \X {Num(0), None})

NextSel ==
  \/ Reference(SelReferenceInputs)
  \/ Tuple(SelTupleInputs)
  \/ Selection(SelSelectionInputs)

SpecSel == Init /\ [][NextSel]_vars

\* ---- Tuples.

TupReferenceInputs == {Text("r")} \X {Int32} \X {None}

\* The ways of giving a node as an element: bare, or paired with a name.
Elements(S) ==
  UNION {{n, PyTuple(<<Text("a"), n>>), PyTuple(<<Text(""), n>>)} : n \in S}

TupBadElements ==
  {NonNode, PyTuple(<<Text("a"), NonNode>>)}
    \cup {PyTuple(<<Num(1), n>>) : n \in FirstNode}
    \cup {PyTuple(<<n>>) : n \in FirstNode}

TupTupleInputs ==
  {<<PyList(<<>>)>>}
    \cup {<<PyList(<<e>>)>> : e \in Elements(NodeRefs) \cup TupBadElements}
    \cup {<<PyList(<<PyTuple(<<None, n>>)>>)>> : n \in NodeRefs}
    \cup {<<PyList(<<e, f>>)>> :
            e \in Elements(FirstNode), f \in Elements(LastNode)}

NextTup ==
  \/ Reference(TupReferenceInputs)
  \/ Tuple(TupTupleInputs)

SpecTup == Init /\ [][NextTup]_vars

\* ---- Calls and lambdas.

CallReferenceInputs ==
  {Text("r")}
    \X {Int32, Vec2, FunctionType(VecAny, Int32), FunctionType(None, Int32)}
    \X {None}

CallCallInputs ==
  (NodeRefs \X (NodeRefs \cup {None, NonNode})) \cup {<<NonNode, None>>}

CallLambdaInputs ==
  ({Text("p")} \X {<<"dtype", "int32">>} \X (NodeRefs \cup {NonNode}))
    \cup ({Text("p"), Num(1)} \X {None} \X (FirstNode \cup {NonNode}))
    \cup ({Num(1)} \X {<<"dtype", "int32">>} \X FirstNode)

NextCall ==
  \/ Reference(CallReferenceInputs)
  \/ Call(CallCallInputs)
  \/ Lambda(CallLambdaInputs)

SpecCall == Init /\ [][NextCall]_vars

\* ----------------------------------------------------------------- claims

\* The node a value refers to.
Node(v) == nodes[v[2]]

Indexes == 1..Len(nodes)

HexChars ==
  {"0", "1", "2", "3", "4", "5", "6", "7", "8", "9", "a", "b", "c", "d", "e", "f"}

IsLowerHex(s) ==
  /\ Len(s) > 0
  /\ \A k \in 1..Len(s) : SubSeq(s, k, k) \in HexChars

\* C1: every node that exists has a non-null type_signature, and no
\* construction changes the type_signature of a node built before it.
C1_TypeSignaturePresentAndFixed ==
  [][/\ \A i \in 1..Len(nodes') : nodes'[i].type_signature # None
     /\ \A i \in Indexes :
          /\ i <= Len(nodes')
          /\ nodes'[i].type_signature = nodes[i].type_signature]_vars

\* C10: str() of a Reference is its name when the context is None, and
\* name + "@" + str(context) whenever the context is not None.
C10_ReferenceStr ==
  last.op = "str" =>
    LET self == Node(last.args[1]) IN
    last.out = Text(IF self.context = None
                      THEN PyStr(self.name)
                      ELSE PyStr(self.name) \o "@" \o PyStr(self.context))

\* C8 as stated: every Intrinsic and Data node pairs a non-empty text URI
\* with a non-null type signature, and construction raises TypeError when the
\* URI is not text or type_spec is None.
C8_NonEmptyUri ==
  /\ \A i \in Indexes :
       nodes[i].kind \in {"Intrinsic", "Data"} =>
         /\ IsText(nodes[i].uri)
         /\ nodes[i].uri[2] # ""
         /\ nodes[i].type_signature # None
  /\ (/\ last.op \in {"Intrinsic", "Data"}
      /\ (~IsText(last.args[1]) \/ last.args[2] = None))
       => last.exc = "TypeError"

\* C8, amended: every Intrinsic and Data node pairs the text URI it was
\* given, which may be empty, with a non-null type signature, and
\* construction raises TypeError when the URI is not text or type_spec is
\* None.
C8_TextUri ==
  /\ \A i \in Indexes :
       nodes[i].kind \in {"Intrinsic", "Data"} =>
         /\ IsText(nodes[i].uri)
         /\ nodes[i].uri = built[i].args[1]
         /\ IsType(nodes[i].type_signature)
  /\ (/\ last.op \in {"Intrinsic", "Data"}
      /\ (~IsText(last.args[1]) \/ last.args[2] = None))
       => (last.exc = "TypeError" /\ last.out = None)

\* An Intrinsic with an empty URI was built, a Data node was built from a
\* bare dtype, and a construction with type_spec None has just failed.
C8_Witness ==
  /\ \E i \in Indexes : nodes[i].kind = "Intrinsic" /\ nodes[i].uri = Text("")
  /\ \E i \in Indexes : nodes[i].kind = "Data" /\ built[i].args[2] = <<"dtype", "int32">>
  /\ last.op = "Intrinsic" /\ last.args = <<Text("u"), None>>
  /\ last.exc = "TypeError"

Fields(t) == t[2]

\* C2: from a source of a named-tuple type with n elements, a selection by
\* the name of one of its fields has that field's declared type, a selection
\* by an index in 0..n-1 has the type of the element at that position, and
\* a selection by an integer index outside that range raises ValueError.
C2_SelectionType ==
  /\ \A i \in Indexes :
       nodes[i].kind = "Selection" =>
         LET source == built[i].args[1]
             name == built[i].args[2]
             index == built[i].args[3]
             fields == Fields(Node(source).type_signature)
         IN IF name # None
              THEN \E k \in 1..Len(fields) :
                     /\ PyEq(fields[k][1], name)
                     /\ nodes[i].type_signature = fields[k][2]
              ELSE nodes[i].type_signature = fields[index[2] + 1][2]
  /\ (/\ last.op = "Selection"
      /\ IsNode(last.args[1])
      /\ IsNamedTupleType(Node(last.args[1]).type_signature))
       => LET fields == Fields(Node(last.args[1]).type_signature)
              name == last.args[2]
              index == last.args[3]
          IN /\ (/\ index = None
                 /\ IsText(name)
                 /\ \E k \in 1..Len(fields) : PyEq(fields[k][1], name))
                  => last.exc = "none"
             /\ (name = None /\ IsInt(index)) =>
                  IF 0 <= index[2] /\ index[2] < Len(fields)
                    THEN last.exc = "none"
                    ELSE last.exc = "ValueError" /\ last.out = None

\* A selection by name and a selection of the second element were built,
\* with different types, and a selection by the index n has just failed.
C2_Witness ==
  /\ \E i, j \in Indexes :
       /\ nodes[i].kind = "Selection" /\ built[i].args[2] = <<"unicode", "a">>
       /\ nodes[j].kind = "Selection" /\ built[j].args[3] = Num(1)
       /\ nodes[i].type_signature # nodes[j].type_signature
  /\ last.op = "Selection"
  /\ IsNode(last.args[1])
  /\ IsNamedTupleType(Node(last.args[1]).type_signature)
  /\ last.args[3] = Num(Len(Fields(Node(last.args[1]).type_signature)))
  /\ last.exc = "ValueError"

\* C7: a selection with neither or both of name and index raises ValueError
\* whatever the source is, and a Selection that was built keeps exactly one
\* of name and index, the one it was given.
C7_NameXorIndex ==
  /\ (/\ last.op = "Selection"
      /\ (last.args[2] = None) = (last.args[3] = None))
       => (last.exc = "ValueError" /\ last.out = None)
  /\ \A i \in Indexes :
       nodes[i].kind = "Selection" =>
         /\ (nodes[i].name = None) # (nodes[i].index = None)
         /\ nodes[i].name # None =>
              (PyEq(nodes[i].name, built[i].args[2]) /\ built[i].args[3] = None)
         /\ nodes[i].index # None =>
              (nodes[i].index = built[i].args[3] /\ built[i].args[2] = None)

\* Selections by name and by index were built, and a selection with both a
\* name and an index from a value that is no building block has just failed.
C7_Witness ==
  /\ \E i, j \in Indexes :
       /\ nodes[i].kind = "Selection" /\ nodes[i].name = Text("a")
       /\ nodes[j].kind = "Selection" /\ nodes[j].index = Num(0)
  /\ last.op = "Selection"
  /\ last.args = <<NonNode, Text("a"), Num(0)>>
  /\ last.exc = "ValueError"

\* The name and the node given as one element of a Tuple.
GivenName(e) == IF IsNode(e) THEN None ELSE e[2][1]

GivenNode(e) == IF IsNode(e) THEN e ELSE e[2][2]

\* C4: the type of a Tuple is a named-tuple type with one field per element,
\* in order, each with exactly the name given for the element (None when it
\* is unnamed) and the type of the element's node; and elements of which two
\* carry the same non-null name are refused.
C4_TupleType ==
  /\ \A i \in Indexes :
       nodes[i].kind = "Tuple" =>
         LET given == built[i].args[1][2]
             t == nodes[i].type_signature
         IN /\ IsNamedTupleType(t)
            /\ Len(Fields(t)) = Len(given)
            /\ \A k \in 1..Len(given) :
                 /\ Fields(t)[k][1] = GivenName(given[k])
                 /\ Fields(t)[k][2] = Node(GivenNode(given[k])).type_signature
  /\ (/\ last.op = "Tuple"
      /\ \E j, k \in 1..Len(last.args[1][2]) :
           /\ j < k
           /\ IsPyTuple(last.args[1][2][j])
           /\ IsPyTuple(last.args[1][2][k])
           /\ Len(last.args[1][2][j][2]) = 2
           /\ Len(last.args[1][2][k][2]) = 2
           /\ last.args[1][2][j][2][1] # None
           /\ last.args[1][2][j][2][1] = last.args[1][2][k][2][1])
       => last.exc # "none"

\* C3: for func of a function type (P -> R) and arg a node or None, Call
\* returns exactly when P is not None and arg's type is assignable to P, or
\* P is None and arg is None; the node then has type R and an argument
\* exactly when P is not None; otherwise it raises TypeError and no node is
\* built.
C3_Step ==
  (/\ last'.op = "Call"
   /\ IsNode(last'.args[1])
   /\ IsFunctionType(type_signature(last'.args[1]))
   /\ (last'.args[2] = None \/ IsNode(last'.args[2])))
    => LET func == last'.args[1]
           arg == last'.args[2]
           P == type_signature(func)[2]
           R == type_signature(func)[3]
       IN IF \/ (/\ P # None
                 /\ arg # None
                 /\ is_assignable_from(P, type_signature(arg)))
             \/ (P = None /\ arg = None)
            THEN /\ last'.exc = "none"
                 /\ Len(nodes') = Len(nodes) + 1
                 /\ SubSeq(nodes', 1, Len(nodes)) = nodes
                 /\ last'.out = NodeRef(Len(nodes'))
                 /\ nodes'[Len(nodes')].kind = "Call"
                 /\ nodes'[Len(nodes')].type_signature = R
                 /\ nodes'[Len(nodes')].function = func
                 /\ nodes'[Len(nodes')].argument = arg
                 /\ (nodes'[Len(nodes')].argument # None) = (P # None)
            ELSE /\ last'.exc = "TypeError"
                 /\ last'.out = None
                 /\ nodes' = nodes

C3_CallContract == [][C3_Step]_vars

\* A call was just built whose argument's type differs from the parameter
\* type it is assignable to.
C3_Witness ==
  /\ last.op = "Call"
  /\ last.exc = "none"
  /\ Node(last.out).argument # None
  /\ Node(Node(last.out).argument).type_signature = Vec2
  /\ Node(Node(last.out).function).type_signature[2] = VecAny
  /\ Node(last.out).type_signature = Int32

\* C5: a Lambda built from a text name, a parameter type T that is not None
\* and a result node has the function type from T to the result's type; and
\* with T = None construction raises TypeError.
C5_LambdaType ==
  /\ \A i \in Indexes :
       nodes[i].kind = "Lambda" =>
         LET T == built[i].args[2]
             result == built[i].args[3]
             t == nodes[i].type_signature
         IN /\ IsText(built[i].args[1])
            /\ T # None
            /\ IsNode(result)
            /\ IsFunctionType(t)
            /\ t[2] = (IF T = <<"dtype", "int32">> THEN Int32 ELSE T)
            /\ t[3] = Node(result).type_signature
  /\ (last.op = "Lambda" /\ last.args[2] = None)
       => (last.exc = "TypeError" /\ last.out = None)

\* A Lambda over a function-typed result was built, and a Lambda with no
\* parameter type and a name that is not text has just failed.
C5_Witness ==
  /\ \E i \in Indexes :
       /\ nodes[i].kind = "Lambda"
       /\ IsFunctionType(Node(nodes[i].result).type_signature)
       /\ nodes[i].type_signature[2] # nodes[i].type_signature[3]
  /\ last.op = "Lambda"
  /\ last.args[1] = Num(1)
  /\ last.args[2] = None
  /\ last.exc = "TypeError"

\* A list of Tuple elements or Block locals in which some value is no
\* building block, and which is well formed apart from that.
HasNonNodeValue(items, names) ==
  /\ \A k \in 1..Len(items) :
       \/ IsNode(items[k])
       \/ /\ IsPyTuple(items[k])
          /\ Len(items[k][2]) = 2
          /\ (IsText(items[k][2][1]) \/ (names = "optional" /\ items[k][2][1] = None))
          /\ items[k][2][2] # None
  /\ \E k \in 1..Len(items) :
       ~IsNode(items[k]) /\ ~IsNode(items[k][2][2])

\* C9: a value that is no building block, given in a child position with the
\* other arguments valid, makes construction raise TypeError and build
\* nothing: as Selection's source, as a Tuple element's value, as Call's
\* func, as Call's arg whether func takes a parameter or not, as Lambda's
\* result, as a Block local's value and as Block's result.
C9_NonNodeChild ==
  /\ (/\ last.op = "Selection"
      /\ ~IsNode(last.args[1])
      /\ last.args[1] # None
      /\ (last.args[2] = None) # (last.args[3] = None))
       => (last.exc = "TypeError" /\ last.out = None)
  /\ (last.op = "Tuple" /\ HasNonNodeValue(last.args[1][2], "optional"))
       => (last.exc = "TypeError" /\ last.out = None)
  /\ (last.op = "Call" /\ ~IsNode(last.args[1]) /\ last.args[1] # None)
       => (last.exc = "TypeError" /\ last.out = None)
  /\ (/\ last.op = "Call"
      /\ IsNode(last.args[1])
      /\ IsFunctionType(Node(last.args[1]).type_signature)
      /\ ~IsNode(last.args[2])
      /\ last.args[2] # None)
       => (last.exc = "TypeError" /\ last.out = None)
  /\ (/\ last.op = "Lambda"
      /\ IsText(last.args[1])
      /\ last.args[2] # None
      /\ ~IsNode(last.args[3])
      /\ last.args[3] # None)
       => (last.exc = "TypeError" /\ last.out = None)
  /\ (/\ last.op = "Block"
      /\ \/ (IsNode(last.args[2]) /\ HasNonNodeValue(last.args[1][2], "text"))
         \/ /\ ~IsNode(last.args[2])
            /\ last.args[2] # None
            /\ \A k \in 1..Len(last.args[1][2]) : IsNode(last.args[1][2][k][2][2]))
       => (last.exc = "TypeError" /\ last.out = None)

====
